---- MODULE Spec2Model ----
(***************************************************************************)
(* Model of the twits server (src/src/main.rs): a warp filter chain that   *)
(* dispatches requests to four handlers, two of which (list, create) work  *)
(* on one sqlite connection shared behind an Arc<Mutex<Connection>>.       *)
(***************************************************************************)
EXTENDS Integers, Sequences, FiniteSets, TLC

\* ------------------------------------------------------------------ bounds
NumReqs == 2        \* request tasks using the store at the same time
MaxRows == 3        \* rows the table holds before creates stop arriving
MaxFaults == 1      \* engine calls that fail in one run
MaxClock == 1       \* ticks of the engine's clock in one run
TicksPerYear == 1   \* clock ticks before the year of CURRENT_TIMESTAMP changes

Reqs == 1..NumReqs

Methods == {"GET", "POST"}
Paths == {"/", "/twits", "/twits_html", "/nope"}
Addrs == {"10.0.0.1", "10.0.0.2"}
Contents == {"Hello"}

\* Option<T>: None is the empty sequence, Some(x) the one-element sequence.
None == <<>>
Some(x) == <<x>>

\* The user names a form may carry in a field of its own.
Users == {"mallory"}

\* A form body is the set of its fields; only `content` is deserialized.
Bodies ==
    {[content |-> c, user |-> u] :
        c \in {Some(x) : x \in Contents} \cup {None},
        u \in {Some(x) : x \in Users} \cup {None}}

NoBody == [content |-> None, user |-> None]

\* The requests the clients send. Only the create route reads the caller's
\* address and the form, so only the POST /twits requests vary them: the
\* other requests come from one address and carry no form.
Requests ==
    {[method |-> "POST", path |-> "/twits", addr |-> a, body |-> b] :
        a \in Addrs, b \in Bodies}
    \cup
    {[method |-> mp[1], path |-> mp[2], addr |-> "10.0.0.1", body |-> NoBody] :
        mp \in (Methods \X Paths) \ {<<"POST", "/twits">>}}

NoReq == [method |-> "", path |-> "", addr |-> "", body |-> NoBody]

\* --------------------------------------------------------------- the Twit
Twit(id, user, content, created_at) ==
    [id |-> id, user |-> user, content |-> content, created_at |-> created_at]

NoTwit == Twit(None, "", "", None)

\* ----------------------------------------------------------- the filters
\* A filter either extracts a reply by running a handler (ran) or rejects
\* with the status its rejection maps to (rej).
Matched(h) == [ran |-> <<h>>, rej |-> 0]
Rejection(s) == [ran |-> <<>>, rej |-> s]

\* warp's choice between two combined rejections: not-found is the weakest,
\* method-not-allowed the next, then the larger status, then the first.
Combine(a, b) ==
    IF b = 404 THEN a
    ELSE IF a = 404 THEN b
    ELSE IF b = 405 THEN a
    ELSE IF a = 405 THEN b
    ELSE IF a < b THEN b
    ELSE a

OrBoth(a, b) ==
    IF a.ran # <<>> \/ b.ran # <<>>
    THEN [ran |-> a.ran \o b.ran, rej |-> 0]
    ELSE Rejection(Combine(b.rej, a.rej))

\* a.or(b): b is tried only when a rejects; when both reject, b's rejection
\* is combined with a's.
Or(a, b) ==
    IF a.ran # <<>> THEN a
    ELSE IF b.ran # <<>> THEN b
    ELSE Rejection(Combine(b.rej, a.rej))

list_twits_creating(q) ==
    IF q.path # "/twits" THEN Rejection(404)
    ELSE IF q.method # "GET" THEN Rejection(405)
    ELSE Matched("create_twit")

list_twits(q) ==
    IF q.path # "/twits" THEN Rejection(404)
    ELSE IF q.method # "GET" THEN Rejection(405)
    ELSE Matched("list_twits")

create_twit_nobody(q) ==
    IF q.path # "/twits" THEN Rejection(404)
    ELSE IF q.method # "POST" THEN Rejection(405)
    ELSE Matched("create_twit")

create_twit(q) ==
    IF q.path # "/twits" THEN Rejection(404)
    ELSE IF q.method # "POST" THEN Rejection(405)
    ELSE IF q.body.content = None THEN Rejection(400)
    ELSE Matched("create_twit")

twits_html(q) ==
    IF q.path # "/twits_html" THEN Rejection(404)
    ELSE IF q.method # "GET" THEN Rejection(405)
    ELSE Matched("list_twit_html")

index_html(q) ==
    IF q.method # "GET" THEN Rejection(405)
    ELSE Matched("index_html")

twits(q) == Or(list_twits(q), create_twit(q))

html_index_first(q) == Or(index_html(q), twits_html(q))

html(q) == Or(twits_html(q), index_html(q))

routes(q) == Or(twits(q), html(q))

PartialTwitFromForm(q) ==
    IF q.body.content = None THEN NoTwit
    ELSE Twit(None, IF q.body.user = None THEN q.addr ELSE q.body.user[1],
              q.body.content[1], None)

\* The Twit the create filter builds from the caller's address and the form.
PartialTwit(q) ==
    IF q.body.content = None THEN NoTwit
    ELSE Twit(None, q.addr, q.body.content[1], None)

\* ------------------------------------------------------------- responses
JsonArray(ts) == [status |-> 200, kind |-> "json_array", data |-> ts]
JsonObject(t) == [status |-> 200, kind |-> "json_object", data |-> <<t>>]
Html(template, ts) == [status |-> 200, kind |-> template, data |-> ts]
Rejected(s) == [status |-> s, kind |-> "rejection", data |-> <<>>]
ListReplyHtmlTail(h, ts) ==
    IF h = "list_twits" THEN JsonArray(ts)
    ELSE Html("twits_html", IF ts = <<>> THEN ts ELSE Tail(ts))

\* The reply of the two list handlers to the Vec that list_twits_from_db
\* returns: its JSON, or the twits_html template rendered on it.
ListReply(h, ts) ==
    IF h = "list_twits" THEN JsonArray(ts) ELSE Html("twits_html", ts)

\* A handler that panics answers nothing: the connection is closed.
NoResp == [status |-> 0, kind |-> "none", data |-> <<>>]

NoExchange == [req |-> NoReq, ran |-> <<>>, resp |-> NoResp]

\* ------------------------------------------------------------- the engine
\* CURRENT_TIMESTAMP is a text 'YYYY-MM-DD HH:MM:SS': its year and the rest.
CurrentTimestamp(c) == [year |-> c \div TicksPerYear, rest |-> c % TicksPerYear]

\* Reading a text column as i64 keeps the leading digits: the year.
ColumnInt64(ts) == ts.year

Row(id, user, content, createdAt) ==
    [id |-> id, user |-> user, content |-> content, createdAt |-> createdAt]

SeedRows == <<Row(1, "Bob", "First twit", CurrentTimestamp(0))>>

RECURSIVE MaxRowid(_)
MaxRowid(rs) ==
    IF rs = <<>> THEN 0
    ELSE LET m == MaxRowid(Tail(rs)) IN IF Head(rs).id > m THEN Head(rs).id ELSE m

NextRowidStale(rs, sq) == IF MaxRowid(rs) > sq THEN MaxRowid(rs) ELSE sq

\* INTEGER PRIMARY KEY AUTOINCREMENT: one more than the largest rowid ever used.
NextRowid(rs, sq) == (IF MaxRowid(rs) > sq THEN MaxRowid(rs) ELSE sq) + 1

InsertFront(rs, row) == <<row>> \o rs

InsertDropFirst(rs, row) == Tail(rs) \o <<row>>

InsertOverwrite(rs, row) ==
    IF Len(rs) > 1 THEN SubSeq(rs, 1, Len(rs) - 1) \o <<row>> ELSE rs \o <<row>>

\* The table is kept in rowid order.
InsertRow(rs, row) ==
    LET lo == SelectSeq(rs, LAMBDA x : x.id < row.id)
        hi == SelectSeq(rs, LAMBDA x : x.id > row.id)
    IN lo \o <<row>> \o hi

ReadTwitSwapped(row) ==
    Twit(Some(row.id), row.content, row.user, Some(ColumnInt64(row.createdAt)))

\* The Twit the list loop reads from the row under the cursor.
ReadTwit(row) ==
    Twit(Some(row.id), row.user, row.content, Some(ColumnInt64(row.createdAt)))

VARIABLES
    rows,      \* the twits table, in rowid order
    seq,       \* sqlite_sequence of the table
    clock,     \* the engine's clock when it was last read
    mutex,     \* the Mutex around the connection: locked, poisoned
    pc,        \* where each request task is
    req,       \* the request a task is serving
    ran,       \* the handlers the filter chain ran for the task's request
    twit,      \* create: the Twit passed to the handler
    bound,     \* create: the parameters bound to the statement
    cursor,    \* list: rows the statement has stepped over
    acc,       \* list: the Vec<Twit> read so far
    state,     \* list: the result of the last stmt.next()
    last,      \* the last exchange completed: request, handlers, response
    arrived,   \* the tasks using the store, in the order they called db.lock()
    created,   \* the Twits the create handler has replied with, in order
    faults     \* engine calls that have failed

vars == <<rows, seq, clock, mutex, pc, req, ran, twit, bound, cursor, acc,
          state, last, arrived, created, faults>>

store == <<rows, seq>>
locals == <<twit, bound, cursor, acc, state>>
orders == <<arrived, created>>

Init ==
    /\ rows = SeedRows
    /\ seq = 1
    /\ clock = 0
    /\ mutex = [locked |-> FALSE, poisoned |-> FALSE]
    /\ pc = [r \in Reqs |-> "idle"]
    /\ req = [r \in Reqs |-> NoReq]
    /\ ran = [r \in Reqs |-> <<>>]
    /\ twit = [r \in Reqs |-> NoTwit]
    /\ bound = [r \in Reqs |-> {}]
    /\ cursor = [r \in Reqs |-> 0]
    /\ acc = [r \in Reqs |-> <<>>]
    /\ state = [r \in Reqs |-> "None"]
    /\ last = NoExchange
    /\ arrived = <<>>
    /\ created = <<>>
    /\ faults = 0

\* A request no filter accepts: the combined rejection is the reply.
Reject(q) ==
    /\ routes(q).ran = <<>>
    /\ last' = [req |-> q, ran |-> <<>>, resp |-> Rejected(routes(q).rej)]
    /\ UNCHANGED <<rows, seq, clock, mutex, pc, req, ran, locals, orders, faults>>

\* handlers::index_html: renders the index template, touches nothing else.
Index(q) ==
    /\ routes(q).ran # <<>>
    /\ Head(routes(q).ran) = "index_html"
    /\ last' = [req |-> q, ran |-> routes(q).ran, resp |-> Html("index", <<>>)]
    /\ UNCHANGED <<rows, seq, clock, mutex, pc, req, ran, locals, orders, faults>>

IsList(r) == ran[r] # <<>> /\ Head(ran[r]) \in {"list_twits", "list_twit_html"}
IsCreate(r) == ran[r] # <<>> /\ Head(ran[r]) = "create_twit"

\* The create requests under way that have not inserted their row yet.
Creating == Cardinality({r \in Reqs : IsCreate(r) /\ pc[r] # "create_ret"})

\* A list or create handler starts: the task calls db.lock().
Start(r, q) ==
    /\ pc[r] = "idle"
    /\ routes(q).ran # <<>>
    /\ Head(routes(q).ran) \in {"list_twits", "list_twit_html", "create_twit"}
    /\ Head(routes(q).ran) = "create_twit" => Len(rows) + Creating < MaxRows
    /\ pc' = [pc EXCEPT ![r] = "lock"]
    /\ req' = [req EXCEPT ![r] = q]
    /\ ran' = [ran EXCEPT ![r] = routes(q).ran]
    /\ twit' = [twit EXCEPT ![r] =
                  IF Head(routes(q).ran) = "create_twit" THEN PartialTwit(q) ELSE NoTwit]
    /\ arrived' = Append(arrived, r)
    /\ UNCHANGED <<rows, seq, clock, mutex, bound, cursor, acc, state, last,
                   created, faults>>

\* ------------------------------------------------------------ the Mutex
LockFree(r) == TRUE

\* lock() returns only when no other task holds the guard.
CanLock(r) == ~mutex.locked

Without(s, r) == SelectSeq(s, LAMBDA x : x # r)

\* A task that panics answers nothing; a guard it holds is dropped during
\* the unwinding, which poisons the Mutex.
Panic(r, holding) ==
    /\ pc' = [pc EXCEPT ![r] = "idle"]
    /\ req' = [req EXCEPT ![r] = NoReq]
    /\ ran' = [ran EXCEPT ![r] = <<>>]
    /\ twit' = [twit EXCEPT ![r] = NoTwit]
    /\ bound' = [bound EXCEPT ![r] = {}]
    /\ cursor' = [cursor EXCEPT ![r] = 0]
    /\ acc' = [acc EXCEPT ![r] = <<>>]
    /\ state' = [state EXCEPT ![r] = "None"]
    /\ last' = [req |-> req[r], ran |-> ran[r], resp |-> NoResp]
    /\ mutex' = IF holding THEN [locked |-> FALSE, poisoned |-> TRUE] ELSE mutex
    /\ arrived' = Without(arrived, r)
    /\ UNCHANGED created

GuardNotTaken(m) == m

UnlockForgotten(m) == m

\* The Mutex once the guard is dropped.
Unlock(m) == [m EXCEPT !.locked = FALSE]

\* The Mutex while a guard is out.
Guard(m) == [m EXCEPT !.locked = TRUE]

\* db.lock().unwrap(): the task gets the guard, or panics on a poisoned Mutex.
Lock(r) ==
    /\ pc[r] = "lock"
    /\ CanLock(r)
    /\ IF mutex.poisoned
       THEN Panic(r, FALSE)
       ELSE /\ mutex' = Guard(mutex)
            /\ pc' = [pc EXCEPT ![r] = "prepare"]
            /\ UNCHANGED <<req, ran, locals, last, arrived, created>>
    /\ UNCHANGED <<rows, seq, clock, faults>>

\* An engine call fails.
Fault == /\ faults < MaxFaults
         /\ faults' = faults + 1

\* ------------------------------------------------- handlers::create_twit
\* conn.prepare("INSERT ...").unwrap()
CreatePrepare(r) ==
    /\ pc[r] = "prepare" /\ IsCreate(r)
    /\ \/ /\ pc' = [pc EXCEPT ![r] = "bind1"]
          /\ UNCHANGED <<mutex, req, ran, locals, last, orders, faults>>
       \/ /\ Fault
          /\ Panic(r, TRUE)
    /\ UNCHANGED <<rows, seq, clock>>

\* let _ = stmt.bind((1, user)): a failure is dropped.
CreateBindUser(r) ==
    /\ pc[r] = "bind1"
    /\ \/ /\ bound' = [bound EXCEPT ![r] = @ \cup {1}]
          /\ UNCHANGED faults
       \/ /\ Fault
          /\ UNCHANGED bound
    /\ pc' = [pc EXCEPT ![r] = "bind2"]
    /\ UNCHANGED <<rows, seq, clock, mutex, req, ran, twit, cursor, acc, state,
                   last, orders>>

\* stmt.bind((2, content)).unwrap()
CreateBindContent(r) ==
    /\ pc[r] = "bind2"
    /\ \/ /\ bound' = [bound EXCEPT ![r] = @ \cup {2}]
          /\ pc' = [pc EXCEPT ![r] = "step"]
          /\ UNCHANGED <<mutex, req, ran, twit, cursor, acc, state, last, orders, faults>>
       \/ /\ Fault
          /\ Panic(r, TRUE)
    /\ UNCHANGED <<rows, seq, clock>>

\* stmt.next().unwrap(): the INSERT runs; an unbound parameter is NULL and the
\* NOT NULL columns reject it.
CreateStep(r) ==
    /\ pc[r] = "step"
    /\ \/ /\ bound[r] = {1, 2}
          /\ \E now \in clock..MaxClock :
                LET id == NextRowid(rows, seq)
                IN /\ rows' = InsertRow(rows, Row(id, twit[r].user, twit[r].content,
                                                   CurrentTimestamp(now)))
                   /\ seq' = id
                   /\ clock' = now
          /\ pc' = [pc EXCEPT ![r] = "create_ret"]
          /\ UNCHANGED <<mutex, req, ran, locals, last, orders, faults>>
       \/ /\ bound[r] # {1, 2}
          /\ Panic(r, TRUE)
          /\ UNCHANGED <<rows, seq, clock, faults>>
       \/ /\ Fault
          /\ Panic(r, TRUE)
          /\ UNCHANGED <<rows, seq, clock>>

\* Ok(warp::reply::json(&twit)): the reply is the Twit the filter built; the
\* guard is dropped when the handler returns.
CreateReturn(r) ==
    /\ pc[r] = "create_ret"
    /\ last' = [req |-> req[r], ran |-> ran[r], resp |-> JsonObject(twit[r])]
    /\ mutex' = Unlock(mutex)
    /\ arrived' = Without(arrived, r)
    /\ created' = Append(created, twit[r])
    /\ pc' = [pc EXCEPT ![r] = "idle"]
    /\ req' = [req EXCEPT ![r] = NoReq]
    /\ ran' = [ran EXCEPT ![r] = <<>>]
    /\ twit' = [twit EXCEPT ![r] = NoTwit]
    /\ bound' = [bound EXCEPT ![r] = {}]
    /\ UNCHANGED <<rows, seq, clock, cursor, acc, state, faults>>

\* ------------------------------------------ handlers::list_twits_from_db
\* conn.prepare("SELECT * FROM twits").unwrap()
ListPrepare(r) ==
    /\ pc[r] = "prepare" /\ IsList(r)
    /\ \/ /\ pc' = [pc EXCEPT ![r] = "next"]
          /\ UNCHANGED <<mutex, req, ran, locals, last, orders, faults>>
       \/ /\ Fault
          /\ Panic(r, TRUE)
    /\ UNCHANGED <<rows, seq, clock>>

\* while let Ok(State::Row) = stmt.next() { twits.push(..) }: one turn of the
\* loop; anything but a row, an error too, ends it.
ListNext(r) ==
    /\ pc[r] = "next"
    /\ \/ /\ cursor[r] < Len(rows)
          /\ cursor' = [cursor EXCEPT ![r] = @ + 1]
          /\ acc' = [acc EXCEPT ![r] = Append(@, ReadTwit(rows[cursor[r] + 1]))]
          /\ state' = [state EXCEPT ![r] = "Row"]
          /\ UNCHANGED <<pc, faults>>
       \/ /\ cursor[r] >= Len(rows)
          /\ state' = [state EXCEPT ![r] = "Done"]
          /\ pc' = [pc EXCEPT ![r] = "list_ret"]
          /\ UNCHANGED <<cursor, acc, faults>>
       \/ /\ Fault
          /\ state' = [state EXCEPT ![r] = "Err"]
          /\ pc' = [pc EXCEPT ![r] = "list_ret"]
          /\ UNCHANGED <<cursor, acc>>
    /\ UNCHANGED <<rows, seq, clock, mutex, req, ran, twit, bound, last, orders>>

\* The Vec is returned and the guard dropped; list_twits replies with its
\* JSON, list_twit_html with the rendered twits_html template.
ListReturn(r) ==
    /\ pc[r] = "list_ret"
    /\ last' = [req |-> req[r], ran |-> ran[r], resp |-> ListReply(Head(ran[r]), acc[r])]
    /\ mutex' = Unlock(mutex)
    /\ arrived' = Without(arrived, r)
    /\ UNCHANGED created
    /\ pc' = [pc EXCEPT ![r] = "idle"]
    /\ req' = [req EXCEPT ![r] = NoReq]
    /\ ran' = [ran EXCEPT ![r] = <<>>]
    /\ cursor' = [cursor EXCEPT ![r] = 0]
    /\ acc' = [acc EXCEPT ![r] = <<>>]
    /\ state' = [state EXCEPT ![r] = "None"]
    /\ UNCHANGED <<rows, seq, clock, twit, bound, faults>>

Next ==
    \/ \E q \in Requests : Reject(q)
    \/ \E q \in Requests : Index(q)
    \/ \E r \in Reqs, q \in Requests : Start(r, q)
    \/ \E r \in Reqs : Lock(r)
    \/ \E r \in Reqs : CreatePrepare(r)
    \/ \E r \in Reqs : CreateBindUser(r)
    \/ \E r \in Reqs : CreateBindContent(r)
    \/ \E r \in Reqs : CreateStep(r)
    \/ \E r \in Reqs : CreateReturn(r)
    \/ \E r \in Reqs : ListPrepare(r)
    \/ \E r \in Reqs : ListNext(r)
    \/ \E r \in Reqs : ListReturn(r)

Spec == Init /\ [][Next]_vars

\* A step of the handler a task runs, once it has the guard.
Step(r) ==
    \/ CreatePrepare(r) \/ CreateBindUser(r) \/ CreateBindContent(r)
    \/ CreateStep(r) \/ CreateReturn(r)
    \/ ListPrepare(r) \/ ListNext(r) \/ ListReturn(r)

\* Fair scheduling: a task that can take a step of its handler takes it, and
\* a task in db.lock() that finds the Mutex free again and again gets it.
FairSpec ==
    /\ Init /\ [][Next]_vars
    /\ \A r \in Reqs : WF_vars(Step(r)) /\ SF_vars(Lock(r))

\* ----------------------------------------------------------- properties
\* Where a task is between getting the guard and dropping it.
Operating == {"prepare", "next", "list_ret", "bind1", "bind2", "step", "create_ret"}

Holders == {r \in Reqs : pc[r] \in Operating}

\* C1: at most one request is working on the shared connection in any
\* reachable state, and it works on it (the list scan, the create's prepare,
\* binds and step) only while the Mutex is locked for it alone.
C1_MutualExclusion ==
    /\ Cardinality(Holders) <= 1
    /\ Holders # {} => mutex.locked

\* A create is at its step while another request waits for the connection.
C1_Witness ==
    \E r, s \in Reqs : r # s /\ pc[r] = "step" /\ pc[s] = "lock" /\ mutex.locked

UniqueIds(rs) == \A i, j \in 1..Len(rs) : i # j => rs[i].id # rs[j].id

\* C2: under every interleaving of creates, each create that completes has
\* added exactly one row (the table holds the seed row and one row per
\* create that ran its insert) and no two rows share an id.
C2_NoLostInsert ==
    /\ Len(rows) = 1 + Len(created) + Cardinality({r \in Reqs : pc[r] = "create_ret"})
    /\ UniqueIds(rows)

\* Two creates are under way at once; one has inserted, after an earlier one
\* completed or while the other still waits.
C2_Witness ==
    \E r, s \in Reqs :
        /\ r # s
        /\ IsCreate(r) /\ pc[r] = "create_ret"
        /\ IsCreate(s) /\ pc[s] = "lock"

\* C3: a list whose scan ran to the end returns the seed row followed by one
\* post per completed insert, with the inserted author and content, in
\* insertion order, the ids strictly increasing.
C3_ListAfterInserts ==
    \A r \in Reqs :
        (pc[r] = "list_ret" /\ state[r] = "Done") =>
            /\ Len(acc[r]) = 1 + Len(created)
            /\ acc[r][1].user = "Bob"
            /\ acc[r][1].content = "First twit"
            /\ \A i \in 1..Len(created) :
                  /\ acc[r][i + 1].user = created[i].user
                  /\ acc[r][i + 1].content = created[i].content
            /\ \A i \in 1..(Len(acc[r]) - 1) : acc[r][i].id[1] < acc[r][i + 1].id[1]

\* A list has read the whole of a table that two inserts have grown.
C3_Witness ==
    \E r \in Reqs :
        /\ pc[r] = "list_ret" /\ state[r] = "Done"
        /\ Len(acc[r]) = 3
        /\ Len(created) = 2

\* C4 (as claimed): the reply to a successful POST /twits is the populated
\* Post: the submitted content, the caller's address as user, and the id
\* and created_at of the row the store inserted for it.
C4_ReplyIsPopulated ==
    last.resp.kind = "json_object" =>
        LET t == last.resp.data[1]
        IN /\ t.content = last.req.body.content[1]
           /\ t.user = last.req.addr
           /\ t.id # None
           /\ t.created_at # None
           /\ \E i \in 1..Len(rows) : ReadTwit(rows[i]) = t

NoContentPost(q) ==
    q.method = "POST" /\ q.path = "/twits" /\ q.body.content = None

\* C5: a POST /twits whose form has no content field is answered with a
\* client error, and the step that answers it starts no handler, leaves the
\* Mutex as it was and changes no row.
C5_NoContentRejected ==
    [][(last' # last /\ NoContentPost(last'.req)) =>
          /\ last'.resp.status \in 400..499
          /\ last'.ran = <<>>
          /\ mutex' = mutex
          /\ pc' = pc
          /\ arrived' = arrived
          /\ rows' = rows
          /\ seq' = seq]_vars

\* A POST without content was refused while another request held the
\* connection.
C5_Witness ==
    /\ NoContentPost(last.req)
    /\ last.resp.status = 400
    /\ mutex.locked

Registered ==
    {<<"GET", "/">>, <<"GET", "/twits">>, <<"POST", "/twits">>, <<"GET", "/twits_html">>}

\* C6 (as claimed): a request whose method and path are not one of the four
\* registered routes gets the not-found reply, and no handler runs for it.
C6_UnregisteredNotFound ==
    (last.req # NoReq /\ <<last.req.method, last.req.path>> \notin Registered) =>
        /\ last.ran = <<>>
        /\ last.resp.status = 404

\* The handler the route table names for a request, where it names one.
Routed(q, h) ==
    \/ q.method = "GET" /\ q.path = "/twits" /\ h = "list_twits"
    \/ q.method = "POST" /\ q.path = "/twits" /\ q.body.content # None /\ h = "create_twit"
    \/ q.method = "GET" /\ q.path = "/twits_html" /\ h = "list_twit_html"
    \/ q.method = "GET" /\ q.path = "/" /\ h = "index_html"

Handlers == {"list_twits", "create_twit", "list_twit_html", "index_html"}

OneHandler(q, hs) ==
    /\ Len(hs) <= 1
    /\ \A h \in Handlers : Routed(q, h) => hs = <<h>>

\* C7: the route chain runs one handler or none for every request, never
\* two, and for the four routes it is the handler of the route: whether the
\* request is still being served or has been answered.
C7_OneHandlerPerRequest ==
    /\ last.req # NoReq => OneHandler(last.req, last.ran)
    /\ \A r \in Reqs : pc[r] # "idle" => OneHandler(req[r], ran[r])

\* A GET /twits_html has been answered by the list-as-HTML handler alone.
C7_Witness ==
    /\ last.req.method = "GET" /\ last.req.path = "/twits_html"
    /\ last.ran = <<"list_twit_html">>
    /\ last.resp.status = 200

\* The four route filters, each evaluated on its own.
Matching(q) ==
    {f \in {"list_twits", "create_twit", "twits_html", "index_html"} :
        CASE f = "list_twits" -> list_twits(q).ran # <<>>
          [] f = "create_twit" -> create_twit(q).ran # <<>>
          [] f = "twits_html" -> twits_html(q).ran # <<>>
          [] f = "index_html" -> index_html(q).ran # <<>>}

\* C8 (as claimed): no request is matched by two of the four route filters.
C8_RoutesDisjoint ==
    last.req # NoReq => Cardinality(Matching(last.req)) <= 1

\* C9 (as claimed): the connection is handed out in arrival order: whoever
\* works on it called db.lock() before every other request still under way.
C9_ArrivalOrder ==
    \A r \in Reqs : pc[r] \in Operating => Head(arrived) = r

\* C9 (amended): the store operations are serialized in the order the
\* requests get the connection: a request gets it only when no other
\* request is between its lock and its return.
C9_SerializedByAcquisition ==
    [][\A r \in Reqs :
          (pc[r] = "lock" /\ pc'[r] = "prepare") =>
              /\ ~mutex.locked
              /\ mutex'.locked
              /\ \A s \in Reqs \ {r} : pc[s] \notin Operating]_vars

\* A request works on the connection while one that called db.lock() before
\* it still waits.
C9_Witness ==
    \E r, s \in Reqs :
        /\ r # s
        /\ pc[r] \in Operating
        /\ pc[s] = "lock"
        /\ arrived = <<s, r>>

\* C10 (as claimed): when prepare, bind or step of a create fails, the
\* request is answered with a server error.
C10_WriteFailureIs500 ==
    [][\A r \in Reqs :
          (IsCreate(r) /\ pc[r] \in {"prepare", "bind2", "step"} /\ pc'[r] = "idle") =>
              /\ last'.req = req[r]
              /\ last'.resp.status \in 500..599]_vars

\* C11 (as claimed): a request that failed while it held the connection
\* leaves the Mutex usable: every request that comes out of db.lock()
\* afterwards holds the connection and goes on to its statement.
C11_GuardStaysUsable ==
    [][\A r \in Reqs :
          (pc[r] = "lock" /\ pc'[r] # "lock") =>
              /\ pc'[r] = "prepare"
              /\ mutex'.locked
              /\ last' = last]_vars

\* A step of a create that inserts its row.
Inserts(r) == pc[r] = "step" /\ pc'[r] = "create_ret"

\* C12: the table is append-only: a step leaves the rows as they are, or it
\* is the insert of a create and adds one row after the rows there were,
\* which keep their id, user, content and createdAt.
C12_AppendOnly ==
    [][\/ rows' = rows
       \/ /\ \E r \in Reqs : Inserts(r)
          /\ Len(rows') = Len(rows) + 1
          /\ SubSeq(rows', 1, Len(rows)) = rows]_vars

\* Two creates have appended their rows after the seed row, at different
\* times.
C12_Witness ==
    /\ Len(rows) = 3
    /\ rows[1] = SeedRows[1]
    /\ rows[2].createdAt # rows[3].createdAt

\* What a complete read of the table yields.
TwitsOf(rs) == [i \in 1..Len(rs) |-> ReadTwit(rs[i])]

IsPrefix(a, b) == Len(a) <= Len(b) /\ \A i \in 1..Len(a) : a[i] = b[i]

ListKinds == {"json_array", "twits_html"}

\* C13: reads see one order of the writes: what a list has read, and every
\* list result sent, is a prefix of the table as it is now (so of what it
\* becomes, and any two results are prefix-related); a list whose scan ran
\* to the end holds every row, those of all the creates already answered.
C13_ReadsSeeOneOrder ==
    /\ \A r \in Reqs : IsPrefix(acc[r], TwitsOf(rows))
    /\ last.resp.kind \in ListKinds => IsPrefix(last.resp.data, TwitsOf(rows))
    /\ \A r \in Reqs :
          (pc[r] = "list_ret" /\ state[r] = "Done") =>
              /\ acc[r] = TwitsOf(rows)
              /\ Len(acc[r]) >= 1 + Len(created)

\* A list result sent before the second insert is a proper prefix of the
\* table now that a create, which waited for that list, has inserted its row.
C13_Witness ==
    /\ faults = 0
    /\ last.resp.kind \in ListKinds
    /\ Len(last.resp.data) = 2
    /\ Len(rows) = 3
    /\ \E r \in Reqs : pc[r] = "create_ret"

ListReturns(r) == pc[r] = "list_ret" /\ state[r] = "Done" /\ pc'[r] = "idle"

\* C15: list-as-HTML and list-as-JSON come from the same read: in whatever
\* state of the table either handler returns, the posts it hands to the
\* renderer or serializes are the same sequence, the rows of the table in
\* order with their field values.
C15_HtmlAndJsonSameRead ==
    [][\A r \in Reqs :
          ListReturns(r) =>
              /\ last'.resp.status = 200
              /\ last'.resp.kind \in ListKinds
              /\ last'.resp.kind = "json_array" <=> req[r].path = "/twits"
              /\ last'.resp.data = TwitsOf(rows)]_vars

\* The HTML list has been rendered on all three rows of the table.
C15_Witness ==
    /\ last.req.path = "/twits_html"
    /\ last.resp.kind = "twits_html"
    /\ Len(last.resp.data) = 3
    /\ Len(rows) = 3

\* C16: on a fresh instance, no create performed yet, GET /twits returns
\* exactly one post, of user Bob and content First twit.
C16_FreshInstanceHasSeed ==
    [][\A r \in Reqs :
          (ListReturns(r) /\ req[r].path = "/twits" /\ created = <<>>
              /\ \A s \in Reqs : pc[s] # "create_ret") =>
              /\ last'.resp.status = 200
              /\ last'.resp.kind = "json_array"
              /\ Len(last'.resp.data) = 1
              /\ last'.resp.data[1].user = "Bob"
              /\ last'.resp.data[1].content = "First twit"]_vars

\* GET /twits has been answered with the seed post before any create.
C16_Witness ==
    /\ last.req.method = "GET" /\ last.req.path = "/twits"
    /\ last.resp.kind = "json_array"
    /\ Len(last.resp.data) = 1
    /\ created = <<>>
    /\ rows = SeedRows

\* C17: the author of a created post is the caller's address and nothing
\* the form supplies: the row a create has just inserted has the address of
\* its request as user and the submitted content, whatever other fields the
\* form carries, so two creates from one address with one content store the
\* same user and content; no row but the seed has a user that is not an
\* address.
C17_AuthorIsCallerAddress ==
    /\ \A r \in Reqs :
          pc[r] = "create_ret" =>
              /\ rows[Len(rows)].user = req[r].addr
              /\ rows[Len(rows)].content = req[r].body.content[1]
    /\ \A i \in 2..Len(rows) : rows[i].user \in Addrs

\* A create whose form carries a user field has inserted its row, after a
\* create from the same address with the same content and no such field:
\* the two rows have the same user and content.
C17_Witness ==
    \E r \in Reqs :
        /\ pc[r] = "create_ret"
        /\ req[r].body.user # None
        /\ last.ran = <<"create_twit">>
        /\ last.resp.status = 200
        /\ last.req.body.user = None
        /\ last.req.addr = req[r].addr
        /\ last.req.body.content = req[r].body.content
        /\ Len(rows) = 3
        /\ rows[2].user = rows[3].user
        /\ rows[2].content = rows[3].content

\* C18 (as claimed): a list never reports success with an incomplete
\* result: a list reply of status 200 holds every row of the table, also
\* when the engine failed while the rows were stepped through.
C18_NoPartialListAsSuccess ==
    [][\A r \in Reqs :
          (pc[r] = "list_ret" /\ pc'[r] = "idle" /\ last'.resp.status = 200) =>
              last'.resp.data = TwitsOf(rows)]_vars

\* C19: read-only requests leave the store as it is: the rows and the
\* sequence of the table change only in the insert step of a task serving
\* POST /twits, never in a step of a GET /twits, GET /twits_html or index
\* request; and the step that answers with the index page leaves the Mutex
\* and every task where they were.
C19_ReadsChangeNothing ==
    [][/\ (rows' # rows \/ seq' # seq) =>
              \E r \in Reqs :
                  /\ req[r].method = "POST" /\ req[r].path = "/twits"
                  /\ Inserts(r)
       /\ (last' # last /\ last'.ran = <<"index_html">>) =>
              /\ mutex' = mutex
              /\ pc' = pc
              /\ arrived' = arrived
              /\ rows' = rows]_vars

\* The index page has been served while a list held the connection and had
\* read rows that a create had added to.
C19_Witness ==
    /\ last.ran = <<"index_html">>
    /\ last.resp.status = 200
    /\ mutex.locked
    /\ \E r \in Reqs : pc[r] = "next" /\ req[r].method = "GET" /\ cursor[r] = 2

\* C20: the index route catches every GET the two list routes do not match,
\* whatever its path, and answers 200 with the index page; being tried
\* last, it takes neither GET /twits nor GET /twits_html from its handler.
C20_IndexCatchesGet ==
    (last.req # NoReq /\ last.req.method = "GET") =>
        /\ last.req.path = "/twits" => last.ran = <<"list_twits">>
        /\ last.req.path = "/twits_html" => last.ran = <<"list_twit_html">>
        /\ last.req.path \notin {"/twits", "/twits_html"} =>
              /\ last.ran = <<"index_html">>
              /\ last.resp = Html("index", <<>>)
              /\ last.resp.status = 200

\* A GET of a path no route names has been answered with the index page.
C20_Witness ==
    /\ last.req.method = "GET" /\ last.req.path = "/nope"
    /\ last.ran = <<"index_html">>
    /\ last.resp.status = 200

====
